---- MODULE Spec2Model ----
(***************************************************************************)
(* Model of src/auth.py: the in-memory credential store USER_STORE, the    *)
(* four operations over it (authenticate, get_user, add_user, remove_user) *)
(* and the helper hash_password.                                           *)
(*                                                                         *)
(* Python values that may be None are modelled as options: None is the     *)
(* empty tuple and any other value v is the one-element tuple <<v>>.       *)
(* A raised exception is recorded in the field exc of the observation of   *)
(* the call.                                                               *)
(***************************************************************************)
EXTENDS Integers, FiniteSets, Sequences, TLC

VARIABLES
    USER_STORE,   \* the module-level dict: username -> record
    last,         \* observation of the most recent call: its arguments and outcome
    removed,      \* history (SpecIds): the entry deleted by the latest successful remove_user
    pc,           \* per concurrent caller: its position inside add_user
    frame         \* per concurrent caller: the arguments and locals of its add_user call

vars == <<USER_STORE, last, removed, pc, frame>>

-----------------------------------------------------------------------------
(* Bounds of the model.                                                    *)

\* In the specification Spec a call of add_user that would assign an id above
\* MaxStoreId is left out; in SpecIds the limit is MaxUserId.
MaxStoreId == 3
MaxUserId == 4

\* number of concurrent callers of add_user in SpecConc
NumCallers == 3

-----------------------------------------------------------------------------
(* Python values.                                                          *)

None == <<>>
Some(v) == <<v>>
Val(o) == o[1]

\* truthiness of a str-or-None value: None and "" are falsy
Falsy(o) == o = None \/ o = Some("")

NoException == ""
AttributeError == "AttributeError: 'NoneType' object has no attribute 'encode'"

\* hashlib.sha256(s.encode()).hexdigest() on the strings of the model
sha256_hexdigest ==
    ("alice123"   :> "4e40e8ffe0ee32fa53e139147ed559229a5930f89c2204706fc174beb36210b3") @@
    ("bob456"     :> "ed4d9437294706c60027d39427f6f5850870625544bb77722aac19f97495b2b7") @@
    ("Alice123"   :> "6766ad37ada06ddc90f432f8d915f991dd0ec6559bfd8d400b380e4aef4e3ac1") @@
    ("charlie789" :> "22ad18a03fd26627225366c2337f1c93693c89fc89b62b8dff3d393e9761d139") @@
    (""           :> "e3b0c44298fc1c149afbf4c8996fb92427ae41e4649b934ca495991b7852b855")

\* hash_password(password): None has no .encode, so the call raises
hash_password(password) ==
    IF password = None
    THEN [exc |-> AttributeError, value |-> ""]
    ELSE [exc |-> NoException, value |-> sha256_hexdigest[Val(password)]]

-----------------------------------------------------------------------------
(* The initial store and the static profile table.                         *)

SeedStore ==
    (Some("alice") :> [password_hash |-> sha256_hexdigest["alice123"],
                       user_id |-> 1, email |-> Some("alice@example.com")]) @@
    (Some("bob")   :> [password_hash |-> sha256_hexdigest["bob456"],
                       user_id |-> 2, email |-> Some("bob@example.com")])

users ==
    (1 :> [id |-> 1, name |-> "alice", email |-> "alice@example.com"]) @@
    (2 :> [id |-> 2, name |-> "bob",   email |-> "bob@example.com"])

-----------------------------------------------------------------------------
(* The read operations, as functions of the current store.                 *)

\* variant: any password is accepted for a stored username (lines 51-52 left out)
authenticate_any_password(username, password) ==
    IF Falsy(username) \/ Falsy(password) THEN FALSE
    ELSE username \in DOMAIN USER_STORE

\* variant: the test of line 44 left out
authenticate_no_falsy_test(username, password) ==
    IF username \notin DOMAIN USER_STORE THEN FALSE
    ELSE hash_password(password).value = USER_STORE[username].password_hash

\* line 48: USER_STORE.get(username) is None exactly when the key is absent (a
\* stored record is a non-empty dict, hence truthy)
authenticate(username, password) ==
    IF Falsy(username) \/ Falsy(password) THEN FALSE
    ELSE IF username \notin DOMAIN USER_STORE THEN FALSE
    ELSE hash_password(password).value = USER_STORE[username].password_hash

\* variant: a profile is returned only while a stored user holds the id
get_user_if_stored(user_id) ==
    IF /\ user_id # None
       /\ Val(user_id) \in DOMAIN users
       /\ \E u \in DOMAIN USER_STORE : USER_STORE[u].user_id = Val(user_id)
    THEN Some(users[Val(user_id)])
    ELSE None

get_user(user_id) ==
    IF user_id # None /\ Val(user_id) \in DOMAIN users
    THEN Some(users[Val(user_id)])
    ELSE None

Max(S) == CHOOSE m \in S : \A x \in S : x <= m

\* variant: the lowest id no stored user holds
next_user_id_lowest_free ==
    LET used == {USER_STORE[u].user_id : u \in DOMAIN USER_STORE}
    IN  CHOOSE i \in 1 .. Cardinality(used) + 1 :
            /\ i \notin used
            /\ \A j \in 1 .. i - 1 : j \in used

\* variant: len(USER_STORE) + 1
next_user_id_len == Cardinality(DOMAIN USER_STORE) + 1

\* max([user["user_id"] for user in USER_STORE.values()], default=0) + 1
next_user_id ==
    IF DOMAIN USER_STORE = {} THEN 1
    ELSE Max({USER_STORE[u].user_id : u \in DOMAIN USER_STORE}) + 1

-----------------------------------------------------------------------------
(* Observations of calls.                                                  *)

NoCall == [op |-> "none", username |-> None, password |-> None, email |-> None,
           user_id |-> None, ret |-> None, exc |-> NoException]

Observed(op, username, password, email, user_id, ret, exc) ==
    [op |-> op, username |-> username, password |-> password, email |-> email,
     user_id |-> user_id, ret |-> ret, exc |-> exc]

-----------------------------------------------------------------------------
(* The operations, one call at a time.                                     *)

\* variant: a failed attempt on a stored username locks the account out by deleting it
Authenticate_lockout(username, password) ==
    /\ last' = Observed("authenticate", username, password, None, None,
                        Some(authenticate(username, password)), NoException)
    /\ IF username \in DOMAIN USER_STORE /\ ~authenticate(username, password)
       THEN USER_STORE' = [k \in DOMAIN USER_STORE \ {username} |-> USER_STORE[k]]
       ELSE UNCHANGED USER_STORE

Authenticate(username, password) ==
    /\ last' = Observed("authenticate", username, password, None, None,
                        Some(authenticate(username, password)), NoException)
    /\ UNCHANGED USER_STORE

GetUser(user_id) ==
    /\ last' = Observed("get_user", None, None, None, user_id,
                        get_user(user_id), NoException)
    /\ UNCHANGED USER_STORE

\* the dict after USER_STORE[username] = {...}
StoreWith(username, password_hash, user_id, email) ==
    [k \in DOMAIN USER_STORE \cup {username} |->
        IF k = username
        THEN [password_hash |-> password_hash, user_id |-> user_id, email |-> email]
        ELSE USER_STORE[k]]

\* the dict after del USER_STORE[username]
StoreWithout(username) ==
    [k \in DOMAIN USER_STORE \ {username} |-> USER_STORE[k]]

\* variant: the membership test of lines 82-83 left out
add_user_overwrite(username, password, email) ==
    LET h == hash_password(password)
    IN  IF h.exc # NoException
        THEN /\ last' = Observed("add_user", username, password, email, None,
                                 None, h.exc)
             /\ UNCHANGED USER_STORE
        ELSE /\ USER_STORE' = StoreWith(username, h.value, next_user_id, email)
             /\ last' = Observed("add_user", username, password, email, None,
                                 Some(TRUE), NoException)

add_user(username, password, email) ==
    IF username \in DOMAIN USER_STORE
    THEN /\ last' = Observed("add_user", username, password, email, None,
                             Some(FALSE), NoException)
         /\ UNCHANGED USER_STORE
    ELSE LET user_id == next_user_id
             h == hash_password(password)
         IN  IF h.exc # NoException
             THEN /\ last' = Observed("add_user", username, password, email, None,
                                      None, h.exc)
                  /\ UNCHANGED USER_STORE
             ELSE /\ USER_STORE' = StoreWith(username, h.value, user_id, email)
                  /\ last' = Observed("add_user", username, password, email, None,
                                      Some(TRUE), NoException)

\* variant: the del of line 104 left out
remove_user_no_delete(username) ==
    /\ last' = Observed("remove_user", username, None, None, None,
                        Some(username \in DOMAIN USER_STORE), NoException)
    /\ UNCHANGED USER_STORE

remove_user(username) ==
    IF username \in DOMAIN USER_STORE
    THEN /\ USER_STORE' = StoreWithout(username)
         /\ last' = Observed("remove_user", username, None, None, None,
                             Some(TRUE), NoException)
    ELSE /\ last' = Observed("remove_user", username, None, None, None,
                             Some(FALSE), NoException)
         /\ UNCHANGED USER_STORE

-----------------------------------------------------------------------------
(* Initial state: the two seed accounts, no call made yet.                 *)

Callers == 1 .. NumCallers

NoFrame == [username |-> None, password |-> None, email |-> None,
            user_id |-> 0, ret |-> None, exc |-> NoException]

Init ==
    /\ USER_STORE = SeedStore
    /\ last = NoCall
    /\ removed = None
    /\ pc = [t \in Callers |-> "idle"]
    /\ frame = [t \in Callers |-> NoFrame]

-----------------------------------------------------------------------------
(* Spec: calls run one at a time, with well-formed and malformed inputs.   *)

Usernames     == {Some("alice"), Some("bob"), Some("charlie"), Some(""), None}
AuthUsernames == Usernames \cup {Some("Alice")}
NewPasswords  == {Some("alice123"), Some(""), None}
AuthPasswords == {Some("alice123"), Some("Alice123"), Some("bob456"), Some(""), None}
Emails        == {Some("charlie@example.com")}
UserIds       == {Some(i) : i \in 0 .. MaxStoreId + 1} \cup {None}

CallAuthenticate ==
    /\ \E username \in AuthUsernames, password \in AuthPasswords :
            Authenticate(username, password)
    /\ UNCHANGED <<removed, pc, frame>>

CallGetUser ==
    /\ \E user_id \in UserIds : GetUser(user_id)
    /\ UNCHANGED <<removed, pc, frame>>

CallAddUser ==
    /\ \E username \in Usernames, password \in NewPasswords, email \in Emails :
            /\ username \in DOMAIN USER_STORE \/ next_user_id <= MaxStoreId
            /\ add_user(username, password, email)
    /\ UNCHANGED <<removed, pc, frame>>

CallRemoveUser ==
    /\ \E username \in Usernames : remove_user(username)
    /\ UNCHANGED <<removed, pc, frame>>

Next ==
    \/ CallAuthenticate
    \/ CallGetUser
    \/ CallAddUser
    \/ CallRemoveUser

Spec == Init /\ [][Next]_vars

-----------------------------------------------------------------------------
(* SpecIds: sequences of add_user and remove_user over four usernames,     *)
(* recording the entry each successful remove_user deleted.                *)

IdUsernames == {Some("alice"), Some("bob"), Some("charlie"), Some("dave")}
IdPasswords == {Some("charlie789")}
IdEmails    == {Some("charlie@example.com"), None}

IdsAddUser ==
    /\ \E username \in IdUsernames, password \in IdPasswords, email \in IdEmails :
            /\ username \in DOMAIN USER_STORE \/ next_user_id <= MaxUserId
            /\ add_user(username, password, email)
    /\ UNCHANGED <<removed, pc, frame>>

IdsRemoveUser ==
    /\ \E username \in IdUsernames :
            /\ remove_user(username)
            /\ removed' = IF username \in DOMAIN USER_STORE
                          THEN Some([username |-> username,
                                     user_id |-> USER_STORE[username].user_id])
                          ELSE removed
    /\ UNCHANGED <<pc, frame>>

IdsGetUser ==
    /\ \E user_id \in {Some(i) : i \in 1 .. MaxUserId} : GetUser(user_id)
    /\ UNCHANGED <<removed, pc, frame>>

NextIds ==
    \/ IdsAddUser
    \/ IdsRemoveUser
    \/ IdsGetUser

SpecIds == Init /\ [][NextIds]_vars

-----------------------------------------------------------------------------
(* SpecConc: add_user called by concurrent callers with no serialization.  *)
(* A caller may be preempted between the statements of add_user: after the *)
(* membership test (line 82), after the computation of user_id (line 85)   *)
(* and before the assignment into USER_STORE (lines 86-90).                *)

ConcUsernames == {Some("charlie"), Some("dave")}
ConcPasswords == {Some("alice123"), Some(""), None}
ConcEmails    == {Some("charlie@example.com")}

\* a caller enters add_user(username, password, email)
Enter(t) ==
    /\ pc[t] = "idle"
    /\ \E username \in ConcUsernames, password \in ConcPasswords, email \in ConcEmails :
            frame' = [frame EXCEPT ![t] = [NoFrame EXCEPT !.username = username,
                                                          !.password = password,
                                                          !.email = email]]
    /\ pc' = [pc EXCEPT ![t] = "line82"]
    /\ UNCHANGED <<USER_STORE, last, removed>>

\* line 82-83: if username in USER_STORE: return False
CheckExists(t) ==
    /\ pc[t] = "line82"
    /\ IF frame[t].username \in DOMAIN USER_STORE
       THEN /\ frame' = [frame EXCEPT ![t].ret = Some(FALSE)]
            /\ pc' = [pc EXCEPT ![t] = "done"]
       ELSE /\ pc' = [pc EXCEPT ![t] = "line85"]
            /\ UNCHANGED frame
    /\ UNCHANGED <<USER_STORE, last, removed>>

\* line 85: user_id = max(...) + 1, read from the store as it is at this step
ComputeId(t) ==
    /\ pc[t] = "line85"
    /\ frame' = [frame EXCEPT ![t].user_id = next_user_id]
    /\ pc' = [pc EXCEPT ![t] = "line86"]
    /\ UNCHANGED <<USER_STORE, last, removed>>

\* variant: the id is computed inside the assignment instead of at line 85
Insert_fresh_id(t) ==
    /\ pc[t] = "line86"
    /\ LET h == hash_password(frame[t].password)
       IN  IF h.exc # NoException
           THEN /\ frame' = [frame EXCEPT ![t].exc = h.exc]
                /\ UNCHANGED USER_STORE
           ELSE /\ USER_STORE' = StoreWith(frame[t].username, h.value,
                                           next_user_id, frame[t].email)
                /\ frame' = [frame EXCEPT ![t].ret = Some(TRUE)]
    /\ pc' = [pc EXCEPT ![t] = "done"]
    /\ UNCHANGED <<last, removed>>

\* lines 86-91: USER_STORE[username] = {...}; return True
Insert(t) ==
    /\ pc[t] = "line86"
    /\ LET h == hash_password(frame[t].password)
       IN  IF h.exc # NoException
           THEN /\ frame' = [frame EXCEPT ![t].exc = h.exc]
                /\ UNCHANGED USER_STORE
           ELSE /\ USER_STORE' = StoreWith(frame[t].username, h.value,
                                           frame[t].user_id, frame[t].email)
                /\ frame' = [frame EXCEPT ![t].ret = Some(TRUE)]
    /\ pc' = [pc EXCEPT ![t] = "done"]
    /\ UNCHANGED <<last, removed>>

NextConc ==
    \/ \E t \in Callers : Enter(t)
    \/ \E t \in Callers : CheckExists(t)
    \/ \E t \in Callers : ComputeId(t)
    \/ \E t \in Callers : Insert(t)

SpecConc == Init /\ [][NextConc]_vars

-----------------------------------------------------------------------------
(* Properties.                                                             *)

PasswordStrings == AuthPasswords \ {None}

AddSucceeded == last.op = "add_user" /\ last.ret = Some(TRUE)

\* C1, as stated: after add_user(u, p, email) has returned true, for whatever u
\* and p it accepted, authenticate(u, p) is true and authenticate(u, q) is false
\* for every password string q other than p.
C1_AuthenticatesAfterAnyAdd ==
    AddSucceeded =>
        /\ authenticate(last.username, last.password)
        /\ \A q \in PasswordStrings :
                q # last.password => ~authenticate(last.username, q)

\* C1, amended: the same for a username and a password that are neither empty
\* nor None.
C1_AuthenticatesAfterAdd ==
    (AddSucceeded /\ ~Falsy(last.username) /\ ~Falsy(last.password)) =>
        /\ authenticate(last.username, last.password)
        /\ \A q \in PasswordStrings :
                q # last.password => ~authenticate(last.username, q)

C1_Witness ==
    /\ AddSucceeded
    /\ last.username = Some("charlie")
    /\ last.password = Some("alice123")
    /\ authenticate(Some("charlie"), Some("alice123"))
    /\ ~authenticate(Some("charlie"), Some("Alice123"))

\* C2: no call raises: authenticate, add_user and remove_user return a boolean
\* and get_user returns a profile record or None, for every input.
C2_NoOperationRaises ==
    /\ last.exc = NoException
    /\ last.op \in {"authenticate", "add_user", "remove_user"} =>
            last.ret \in {Some(TRUE), Some(FALSE)}
    /\ last.op = "get_user" =>
            last.ret \in {None} \cup {Some(users[i]) : i \in DOMAIN users}

\* C3: add_user on a stored username and remove_user on a username that is not
\* stored return false and leave the whole store as it was, so every password
\* authenticates the username after the call exactly when it did before.
C3_FailedMutationChangesNothing ==
    [][ \A u \in Usernames :
        /\ (last'.op = "add_user" /\ last'.username = u /\ u \in DOMAIN USER_STORE) =>
              /\ last'.ret = Some(FALSE)
              /\ last'.exc = NoException
              /\ USER_STORE' = USER_STORE
              /\ \A q \in AuthPasswords : authenticate(u, q)' = authenticate(u, q)
        /\ (last'.op = "remove_user" /\ last'.username = u /\ u \notin DOMAIN USER_STORE) =>
              /\ last'.ret = Some(FALSE)
              /\ last'.exc = NoException
              /\ USER_STORE' = USER_STORE
              /\ Cardinality(DOMAIN USER_STORE') = Cardinality(DOMAIN USER_STORE)
      ]_vars

C3_Witness ==
    /\ last.op = "add_user"
    /\ last.username = Some("bob")
    /\ last.password = Some("alice123")
    /\ last.ret = Some(FALSE)
    /\ authenticate(Some("bob"), Some("bob456"))
    /\ ~authenticate(Some("bob"), Some("alice123"))

\* C4: a successful add_user gives the new entry an id above every id that was
\* in the store, namely 1 when the store was empty and otherwise the successor
\* of an id that was in the store; it never fills a gap below the maximum.
C4_NewIdIsMaxPlusOne ==
    [][ (/\ last'.op = "add_user"
         /\ last'.ret = Some(TRUE)
         /\ last'.username \notin DOMAIN USER_STORE) =>
            LET id == USER_STORE'[last'.username].user_id
            IN  /\ \A k \in DOMAIN USER_STORE : USER_STORE[k].user_id < id
                /\ DOMAIN USER_STORE = {} => id = 1
                /\ DOMAIN USER_STORE # {} =>
                        \E k \in DOMAIN USER_STORE : USER_STORE[k].user_id = id - 1
      ]_vars

\* the scenario of the claim: charlie got 3, bob (2) was removed, dave got 4
C4_Witness ==
    /\ AddSucceeded
    /\ last.username = Some("dave")
    /\ DOMAIN USER_STORE = {Some("alice"), Some("charlie"), Some("dave")}
    /\ USER_STORE[Some("alice")].user_id = 1
    /\ USER_STORE[Some("charlie")].user_id = 3
    /\ USER_STORE[Some("dave")].user_id = 4

AliceProfile == [id |-> 1, name |-> "alice", email |-> "alice@example.com"]
BobProfile   == [id |-> 2, name |-> "bob", email |-> "bob@example.com"]

ExpectedProfile(user_id) ==
    IF user_id = Some(1) THEN Some(AliceProfile)
    ELSE IF user_id = Some(2) THEN Some(BobProfile)
    ELSE None

\* C5: whatever the store holds, get_user(1) and get_user(2) are the alice and
\* bob profiles and get_user of any other id, None included, is None.
C5_GetUserIgnoresStore ==
    /\ \A user_id \in UserIds : get_user(user_id) = ExpectedProfile(user_id)
    /\ last.op = "get_user" => last.ret = ExpectedProfile(last.user_id)

\* get_user(3) is None while a user added to the store holds id 3, and alice,
\* removed from the store, still has her profile
C5_Witness ==
    /\ last.op = "get_user"
    /\ last.user_id = Some(3)
    /\ last.ret = None
    /\ \E u \in DOMAIN USER_STORE : USER_STORE[u].user_id = 3
    /\ Some("alice") \notin DOMAIN USER_STORE
    /\ get_user(Some(1)) = Some(AliceProfile)

RemovedFromStore(u) ==
    [k \in DOMAIN USER_STORE \ {u} |-> USER_STORE[k]]

\* C6: remove_user on a stored username returns true and deletes that entry
\* and no other; a username that is not in the store authenticates with no
\* password, and it comes back into the store only by a successful add_user of
\* that username.
C6_RemovedUserCannotAuthenticate ==
    /\ [][ \A u \in Usernames :
            (last'.op = "remove_user" /\ last'.username = u /\ u \in DOMAIN USER_STORE) =>
                /\ last'.ret = Some(TRUE)
                /\ USER_STORE' = RemovedFromStore(u)
                /\ \A p \in AuthPasswords : ~authenticate(u, p)'
         ]_vars
    /\ [](\A u \in AuthUsernames \ DOMAIN USER_STORE :
            \A p \in AuthPasswords : ~authenticate(u, p))
    /\ [][ \A u \in AuthUsernames :
            (u \notin DOMAIN USER_STORE /\ u \in DOMAIN USER_STORE') =>
                (last'.op = "add_user" /\ last'.username = u /\ last'.ret = Some(TRUE))
         ]_vars

\* charlie, added with alice123 and then removed, no longer authenticates
C6_Witness ==
    /\ last.op = "remove_user"
    /\ last.username = Some("charlie")
    /\ last.ret = Some(TRUE)
    /\ Some("charlie") \notin DOMAIN USER_STORE
    /\ DOMAIN USER_STORE = {Some("alice"), Some("bob")}
    /\ ~authenticate(Some("charlie"), Some("alice123"))

\* C7: authenticate is false when the username or the password is empty or
\* None, whatever the store holds, and false for a username that is not in the
\* store; a username or password differing only in case is a different one.
C7_FalsyOrUnknownNeverAuthenticates ==
    /\ \A u \in AuthUsernames, p \in AuthPasswords :
            (Falsy(u) \/ Falsy(p) \/ u \notin DOMAIN USER_STORE) => ~authenticate(u, p)
    /\ \A u \in DOMAIN USER_STORE :
            USER_STORE[u].password_hash = sha256_hexdigest["alice123"] =>
                ~authenticate(u, Some("Alice123"))
    /\ (last.op = "authenticate"
            /\ (Falsy(last.username) \/ Falsy(last.password)
                    \/ last.username \notin DOMAIN USER_STORE)) =>
            last.ret = Some(FALSE)

\* a user stored under the empty username with password alice123 is refused
\* with that very password
C7_Witness ==
    /\ Some("") \in DOMAIN USER_STORE
    /\ USER_STORE[Some("")].password_hash = sha256_hexdigest["alice123"]
    /\ last.op = "authenticate"
    /\ last.username = Some("")
    /\ last.password = Some("alice123")
    /\ last.ret = Some(FALSE)

\* C8: a call of authenticate or get_user leaves the store as it was, and after
\* a call of authenticate every password authenticates the username of the call
\* exactly when it did before the call.
C8_ReadsLeaveStoreUnchanged ==
    [][ /\ last'.op \in {"authenticate", "get_user"} => USER_STORE' = USER_STORE
        /\ last'.op = "authenticate" =>
                \A u \in AuthUsernames :
                    last'.username = u =>
                        \A p \in AuthPasswords : authenticate(u, p)' = authenticate(u, p)
      ]_vars

\* after a failed attempt on alice her password still authenticates
C8_Witness ==
    /\ last.op = "authenticate"
    /\ last.username = Some("alice")
    /\ last.password = Some("Alice123")
    /\ last.ret = Some(FALSE)
    /\ authenticate(Some("alice"), Some("alice123"))

Returned(t, b) == pc[t] = "done" /\ frame[t].exc = NoException /\ frame[t].ret = Some(b)

\* the record a caller's add_user assigns into the store
RecordOf(t) ==
    [password_hash |-> hash_password(frame[t].password).value,
     user_id |-> frame[t].user_id, email |-> frame[t].email]

\* C9: add_user is not atomic. The assignment of lines 86-90 stores the id
\* computed at line 85, however the store has changed since, and returns true
\* without testing membership again; of the callers that returned true for one
\* username the store holds the record of one only.
C9_AddUserNotAtomic ==
    /\ [][ \A t \in Callers :
            (pc[t] = "line86" /\ pc'[t] = "done" /\ frame[t].password # None) =>
                /\ frame'[t].ret = Some(TRUE)
                /\ USER_STORE'[frame[t].username] = RecordOf(t)
         ]_vars
    /\ [](\A t \in Callers :
            Returned(t, TRUE) =>
                \E w \in Callers :
                    /\ Returned(w, TRUE)
                    /\ frame[w].username = frame[t].username
                    /\ USER_STORE[frame[t].username] = RecordOf(w))

\* two usernames hold the same user_id, and two calls for one username both
\* returned true while the record of one of them is gone
C9_Witness ==
    /\ \E u1, u2 \in DOMAIN USER_STORE :
            u1 # u2 /\ USER_STORE[u1].user_id = USER_STORE[u2].user_id
    /\ \E t1, t2 \in Callers :
            /\ t1 # t2
            /\ Returned(t1, TRUE) /\ Returned(t2, TRUE)
            /\ frame[t1].username = frame[t2].username
            /\ RecordOf(t1) # RecordOf(t2)
            /\ USER_STORE[frame[t1].username] = RecordOf(t2)

\* C10: with calls run one at a time, the user_ids in the store are pairwise
\* distinct positive integers.
C10_StoredIdsDistinct ==
    /\ \A u \in DOMAIN USER_STORE :
            USER_STORE[u].user_id \in Nat /\ USER_STORE[u].user_id >= 1
    /\ \A u, v \in DOMAIN USER_STORE :
            u # v => USER_STORE[u].user_id # USER_STORE[v].user_id

\* the id of the user removed last has been assigned to another username
C10_Witness ==
    /\ removed # None
    /\ AddSucceeded
    /\ last.username # Val(removed).username
    /\ USER_STORE[last.username].user_id = Val(removed).user_id
    /\ Val(removed).username \notin DOMAIN USER_STORE

====
